---- MODULE Spec2Model ----
(***************************************************************************)
(* Model of supervision/classification/core.py: the Classifications value  *)
(* object, its construction-time validation, the three adapters            *)
(* (from_clip, from_ultralytics, from_timm) and get_top_k.                  *)
(*                                                                         *)
(* Representation.                                                         *)
(*  - A Python value that reaches the code is a record                     *)
(*    [kind, shape, data]: kind is "ndarray", "list" or "None"; shape is   *)
(*    the numpy shape tuple; data holds the elements in row-major order.   *)
(*  - Floating-point numbers are fixed-point thousandths: 500 is 0.5.      *)
(*  - Array indices produced by the code (np.arange, np.argsort) keep      *)
(*    numpy's 0-based values; element i of an array a is a.data[i + 1].    *)
(***************************************************************************)
EXTENDS Integers, Sequences, FiniteSets, TLC

VARIABLES self, created, origin, op, args, err, ret

vars == <<self, created, origin, op, args, err, ret>>

----------------------------------------------------------------------------
(* Bounds of the explored inputs.                                          *)

MaxLen == 3

MaxRows == 2

MaxK == 4

ClassVals == {0, 1}

ConfVals == {100, 500, 900}

LogitVals == {200, 300, 500, 1000}

----------------------------------------------------------------------------
(* Python values.                                                          *)

None == [kind |-> "None", shape |-> <<>>, data |-> <<>>]

Arr(shape, data) == [kind |-> "ndarray", shape |-> shape, data |-> data]

Vec(data) == Arr(<<Len(data)>>, data)

PyList(data) == [kind |-> "list", shape |-> <<Len(data)>>, data |-> data]

Rank(a) == Len(a.shape)

isinstance_ndarray(a) == a.kind = "ndarray"

\* len(a) is defined for lists and for arrays of rank >= 1; len() of None or
\* of a 0-d array raises TypeError.
HasLen(a) == a.kind # "None" /\ Rank(a) >= 1

pylen(a) == a.shape[1]

\* Mutation of arange: class ids counted from 1.
arange_from1(n) == Vec([i \in 1..n |-> i])

\* np.arange(n): 0, 1, ..., n-1.
arange(n) == Vec([i \in 1..n |-> i - 1])

\* a[0] of an array of rank 2: its first row.
row0(a) == Vec(SubSeq(a.data, 1, a.shape[2]))

SeqsUpTo(S, n) == UNION {[1..m -> S] : m \in 0..n}

----------------------------------------------------------------------------
(* Validation and construction.                                            *)

\* TRUE when the check passes; the code raises ValueError otherwise.
_validate_class_ids(class_id, n) ==
    isinstance_ndarray(class_id) /\ class_id.shape = <<n>>

\* Mutation of _validate_confidence: the shape is not compared with (n,).
_validate_confidence_any(confidence, n) ==
    confidence = None \/ isinstance_ndarray(confidence)

_validate_confidence(confidence, n) ==
    confidence = None
    \/ (isinstance_ndarray(confidence) /\ confidence.shape = <<n>>)

NoObject == [class_id |-> None, confidence |-> None]

\* The dataclass constructor followed by __post_init__: the exception raised
\* ("none" when construction succeeds) and the object built.
Classifications(class_id, confidence) ==
    IF ~HasLen(class_id)
    THEN [err |-> "TypeError", obj |-> NoObject]
    ELSE LET n == pylen(class_id) IN
         IF ~_validate_class_ids(class_id, n)
         THEN [err |-> "ValueError", obj |-> NoObject]
         ELSE IF ~_validate_confidence(confidence, n)
         THEN [err |-> "ValueError", obj |-> NoObject]
         ELSE [err |-> "none",
               obj |-> [class_id |-> class_id, confidence |-> confidence]]

\* __len__
len_(obj) == pylen(obj.class_id)

----------------------------------------------------------------------------
(* Adapters.                                                               *)

\* exp(x) to five decimals, in units of 10^-5, for x = 0.0, 0.1, ..., 1.0:
\* precise enough that softmax_row rounds as the exact quotient does.
ExpTable ==
    <<100000, 110517, 122140, 134986, 149182, 164872,
      182212, 201375, 222554, 245960, 271828>>

\* exp(x) for x given in thousandths, a multiple of 0.1 in 0.0 .. 1.0.
exp_(x) == ExpTable[(x \div 100) + 1]

RECURSIVE SumSeq(_)
SumSeq(s) == IF s = <<>> THEN 0 ELSE Head(s) + SumSeq(Tail(s))

\* softmax of one row: exp(row[i]) / sum_j exp(row[j]), rounded to the nearest
\* thousandth.
softmax_row(row) ==
    LET e == [i \in 1..Len(row) |-> exp_(row[i])]
        z == SumSeq(e)
    IN  [i \in 1..Len(row) |-> (2 * 1000 * e[i] + z) \div (2 * z)]

\* Mutation of softmax: the input is taken as probabilities already.
softmax_identity(a) == a

\* tensor.softmax(dim=-1): softmax along the last axis, shape unchanged.
softmax(a) ==
    LET cols == IF Rank(a) = 0 THEN 1 ELSE a.shape[Rank(a)]
        rowOf(i) == SubSeq(a.data, ((i - 1) \div cols) * cols + 1,
                                   ((i - 1) \div cols) * cols + cols)
    IN  Arr(a.shape,
            [i \in 1..Len(a.data) |-> softmax_row(rowOf(i))[((i - 1) % cols) + 1]])

\* from_clip: probs = clip_results.softmax(dim=-1)...numpy();
\* probs.shape[1] raises IndexError below rank 2, probs[0] on zero rows.
from_clip(clip_results) ==
    LET probs == softmax(clip_results) IN
    IF Rank(probs) < 2 \/ probs.shape[1] = 0
    THEN [err |-> "IndexError", obj |-> NoObject]
    ELSE Classifications(arange(probs.shape[2]), row0(probs))

\* from_ultralytics: confidence = results.probs.data.cpu().numpy();
\* confidence.shape[0] raises IndexError on a 0-d array.
from_ultralytics(ultralytics_results) ==
    LET confidence == ultralytics_results IN
    IF Rank(confidence) < 1
    THEN [err |-> "IndexError", obj |-> NoObject]
    ELSE Classifications(arange(confidence.shape[1]), confidence)

\* Mutation of from_timm: the empty result is built without confidence.
from_timm_empty_none(timm_results) ==
    IF Rank(timm_results) < 1 \/ timm_results.shape[1] = 0
    THEN [err |-> "IndexError", obj |-> NoObject]
    ELSE IF Rank(timm_results) = 1
    THEN [err |-> "TypeError", obj |-> NoObject]
    ELSE LET confidence == row0(timm_results) IN
         IF pylen(confidence) = 0
         THEN Classifications(Vec(<<>>), None)
         ELSE Classifications(arange(pylen(confidence)), confidence)

\* from_timm: confidence = timm_results.cpu().detach().numpy()[0].
\* [0] raises IndexError on a 0-d array and on an empty first axis; on a
\* vector it yields a scalar, whose len() raises TypeError.
from_timm(timm_results) ==
    IF Rank(timm_results) < 1 \/ timm_results.shape[1] = 0
    THEN [err |-> "IndexError", obj |-> NoObject]
    ELSE IF Rank(timm_results) = 1
    THEN [err |-> "TypeError", obj |-> NoObject]
    ELSE LET confidence == row0(timm_results) IN
         IF pylen(confidence) = 0
         THEN Classifications(Vec(<<>>), Vec(<<>>))
         ELSE Classifications(arange(pylen(confidence)), confidence)

----------------------------------------------------------------------------
(* Top-k selection.                                                        *)

\* The index sequences that list the indices in rest by ascending value of
\* data: the next index is any of those holding the smallest value left.
RECURSIVE AscendingOrders(_, _)
AscendingOrders(data, rest) ==
    IF rest = {}
    THEN {<<>>}
    ELSE LET smallest == {i \in rest : \A j \in rest : data[i + 1] <= data[j + 1]}
         IN  UNION {{<<i>> \o t : t \in AscendingOrders(data, rest \ {i})}
                    : i \in smallest}

\* Mutation of argsort: the indices are returned unsorted.
argsort_unsorted(a) == {[i \in 1..pylen(a) |-> i - 1]}

\* np.argsort(a) with the default kind ("quicksort", not stable): an index
\* permutation that sorts a ascending; the order of equal elements is not
\* determined, so every sorting permutation is a possible result.
argsort(a) == AscendingOrders(a.data, 0..(pylen(a) - 1))

\* Mutation of reversed_: the [::-1] is missing (ascending order).
reversed_identity(s) == s

\* s[::-1]
reversed_(s) == [i \in 1..Len(s) |-> s[Len(s) + 1 - i]]

\* Mutation of slice_to: the order is not truncated.
slice_to_all(s, k) == s

\* Mutation of slice_to: a negative k is clamped to zero.
slice_to_clamped(s, k) ==
    SubSeq(s, 1, IF k < 0 THEN 0 ELSE IF k < Len(s) THEN k ELSE Len(s))

\* s[:k] with Python slice semantics: a negative k counts from the end.
slice_to(s, k) ==
    LET stop == IF k >= 0 THEN (IF k < Len(s) THEN k ELSE Len(s))
                ELSE (IF Len(s) + k > 0 THEN Len(s) + k ELSE 0)
    IN  SubSeq(s, 1, stop)

\* a[idx] with an integer index array idx.
take(a, idx) == Vec([j \in 1..Len(idx) |-> a.data[idx[j] + 1]])

NoResult == [class_id |-> None, confidence |-> None]

\* Mutation of get_top_k: without confidence, fall back to the input order.
get_top_k_fallback(obj, k) ==
    IF obj.confidence = None
    THEN {[err |-> "none",
           ret |-> [class_id |-> take(obj.class_id,
                                      slice_to(arange(pylen(obj.class_id)).data, k)),
                    confidence |-> None]]}
    ELSE { [err |-> "none",
            ret |-> [class_id |-> take(obj.class_id, slice_to(reversed_(asc), k)),
                     confidence |-> take(obj.confidence, slice_to(reversed_(asc), k))]]
           : asc \in argsort(obj.confidence) }

\* get_top_k(k): the set of possible outcomes [err, ret].
get_top_k(obj, k) ==
    IF obj.confidence = None
    THEN {[err |-> "ValueError", ret |-> NoResult]}
    ELSE { LET order == reversed_(asc)
               top_k_order == slice_to(order, k)
               top_k_class_id == take(obj.class_id, top_k_order)
               top_k_confidence == take(obj.confidence, top_k_order)
           IN  [err |-> "none",
                ret |-> [class_id |-> top_k_class_id,
                         confidence |-> top_k_confidence]]
           : asc \in argsort(obj.confidence) }

----------------------------------------------------------------------------
(* Inputs.                                                                 *)

\* A (b, Len(d)) matrix whose first row is d and whose other rows are d
\* reversed.
Batch(b, d) ==
    LET n == Len(d) IN
    Arr(<<b, n>>,
        [i \in 1..(b * n) |->
            IF (i - 1) \div n = 0 THEN d[((i - 1) % n) + 1]
                                  ELSE d[n - ((i - 1) % n)]])

Scalars(V) == {Arr(<<>>, <<v>>) : v \in V}

Vectors(V) == {Vec(d) : d \in SeqsUpTo(V, MaxLen)}

Matrices(V) == {Batch(b, d) : b \in 0..MaxRows, d \in SeqsUpTo(V, MaxLen)}

\* A (2, 3) matrix and the other non-flat shapes, one filling each.
ShapeProbes(V) ==
    LET v == CHOOSE x \in V : \A y \in V : x <= y IN
    {Arr(<<b, n>>, [i \in 1..(b * n) |-> v]) : b \in 0..MaxRows, n \in 0..MaxLen}
    \cup {Arr(<<>>, <<v>>)}
    \cup {PyList([i \in 1..n |-> v]) : n \in 0..MaxLen}

ClassIdInputs == Vectors(ClassVals) \cup ShapeProbes(ClassVals)

ConfidenceInputs == Vectors(ConfVals) \cup ShapeProbes(ConfVals) \cup {None}

AdapterInputs(V) == Scalars(V) \cup Vectors(V) \cup Matrices(V)

----------------------------------------------------------------------------
(* The state machine: one result object at a time.  self is the object     *)
(* held by the caller, created its value when it was constructed, origin   *)
(* the constructor or adapter that built it; op, args, err and ret record  *)
(* the last call, its arguments, the exception it raised ("none" if it     *)
(* returned) and what get_top_k returned.                                  *)

NoArgs == [a |-> None, b |-> None, k |-> 0]

Init ==
    /\ self = NoObject
    /\ created = NoObject
    /\ origin = "init"
    /\ op = "init"
    /\ args = NoArgs
    /\ err = "none"
    /\ ret = NoResult

\* The caller holds no result: a construction or an adapter call may start.
Idle == op = "init"

Construct ==
    /\ Idle
    /\ \E class_id \in ClassIdInputs, confidence \in ConfidenceInputs :
        LET r == Classifications(class_id, confidence) IN
        /\ self' = r.obj
        /\ created' = r.obj
        /\ origin' = "Classifications"
        /\ op' = "Classifications"
        /\ args' = [a |-> class_id, b |-> confidence, k |-> 0]
        /\ err' = r.err
        /\ ret' = NoResult

FromClip ==
    /\ Idle
    /\ \E x \in AdapterInputs(LogitVals) :
        LET r == from_clip(x) IN
        /\ self' = r.obj
        /\ created' = r.obj
        /\ origin' = "from_clip"
        /\ op' = "from_clip"
        /\ args' = [a |-> x, b |-> None, k |-> 0]
        /\ err' = r.err
        /\ ret' = NoResult

FromUltralytics ==
    /\ Idle
    /\ \E x \in AdapterInputs(ConfVals) :
        LET r == from_ultralytics(x) IN
        /\ self' = r.obj
        /\ created' = r.obj
        /\ origin' = "from_ultralytics"
        /\ op' = "from_ultralytics"
        /\ args' = [a |-> x, b |-> None, k |-> 0]
        /\ err' = r.err
        /\ ret' = NoResult

FromTimm ==
    /\ Idle
    /\ \E x \in AdapterInputs(LogitVals) :
        LET r == from_timm(x) IN
        /\ self' = r.obj
        /\ created' = r.obj
        /\ origin' = "from_timm"
        /\ op' = "from_timm"
        /\ args' = [a |-> x, b |-> None, k |-> 0]
        /\ err' = r.err
        /\ ret' = NoResult

GetTopK ==
    /\ self # NoObject
    /\ \E k \in (-MaxK)..MaxK :
       \E r \in get_top_k(self, k) :
            /\ op' = "get_top_k"
            /\ args' = [a |-> None, b |-> None, k |-> k]
            /\ err' = r.err
            /\ ret' = r.ret
            /\ UNCHANGED <<self, created, origin>>

\* The caller drops the result (or the failed call's exception): ordinary
\* value-object lifetime.
Discard ==
    /\ ~Idle
    /\ self' = NoObject
    /\ created' = NoObject
    /\ origin' = "init"
    /\ op' = "init"
    /\ args' = NoArgs
    /\ err' = "none"
    /\ ret' = NoResult

Next ==
    Construct \/ FromClip \/ FromUltralytics \/ FromTimm \/ GetTopK \/ Discard

Spec == Init /\ [][Next]_vars

----------------------------------------------------------------------------
(* Vocabulary of the properties.                                           *)

Min(a, b) == IF a < b THEN a ELSE b

Max(a, b) == IF a > b THEN a ELSE b

\* One-to-one maps from result positions 1..m to input positions 1..n.
Injections(m, n) ==
    {f \in [1..m -> 1..n] : \A a, b \in 1..m : a # b => f[a] # f[b]}

\* p orders the input positions by non-increasing confidence.
Descending(p, conf) ==
    \A i \in 1..(Len(conf) - 1) : conf[p[i]] >= conf[p[i + 1]]

\* The input positions sorted ascending by (-confidence, original index).
ByNegConfThenIndex(conf) ==
    CHOOSE p \in Injections(Len(conf), Len(conf)) :
        \A i \in 1..(Len(conf) - 1) :
            \/ conf[p[i]] > conf[p[i + 1]]
            \/ (conf[p[i]] = conf[p[i + 1]] /\ p[i] < p[i + 1])

\* The value returned is the first m entries of the input read in order p.
ReturnsPrefix(p, m) ==
    /\ ret.class_id.kind = "ndarray"
    /\ ret.confidence.kind = "ndarray"
    /\ ret.class_id.data = [j \in 1..m |-> self.class_id.data[p[j]]]
    /\ ret.confidence.data = [j \in 1..m |-> self.confidence.data[p[j]]]

\* get_top_k was the last call, on a result that has confidence.
TopKOnScored == op = "get_top_k" /\ self.confidence # None

DenseIds(n) == [i \in 1..n |-> i - 1]

\* An adapter returned a result of n items with ids 0..n-1 and n scores.
AdapterBuilt(n) ==
    /\ err = "none"
    /\ self # NoObject
    /\ len_(self) = n
    /\ self.class_id.data = DenseIds(n)
    /\ self.confidence # None
    /\ self.confidence.shape = <<n>>
    /\ Len(self.confidence.data) = n

IsMatrix1xN(a) == a.kind = "ndarray" /\ Rank(a) = 2 /\ a.shape[1] = 1

IsVector(a) == a.kind = "ndarray" /\ Rank(a) = 1

----------------------------------------------------------------------------
(* C1: for a result with confidence and k >= 0, get_top_k(k) returns       *)
(* min(k, N) entries in non-increasing confidence; the j-th class id and   *)
(* the j-th confidence come from one input index, the indices are pairwise *)
(* distinct, and no item left out has a confidence above a returned one.   *)
C1_TopKHighestDescending ==
    (TopKOnScored /\ args.k >= 0) =>
        LET cls == self.class_id.data
            conf == self.confidence.data
            rc == ret.class_id.data
            rf == ret.confidence.data
            m == Min(args.k, Len(conf))
        IN  /\ err = "none"
            /\ Len(rc) = m
            /\ Len(rf) = m
            /\ \A j \in 1..(m - 1) : rf[j] >= rf[j + 1]
            /\ \E idx \in Injections(m, Len(conf)) :
                /\ \A j \in 1..m : rc[j] = cls[idx[j]] /\ rf[j] = conf[idx[j]]
                /\ \A i \in 1..Len(conf) :
                      (\A j \in 1..m : idx[j] # i)
                          => \A j \in 1..m : conf[i] <= rf[j]

C1_Witness ==
    /\ op = "get_top_k"
    /\ err = "none"
    /\ args.k = 2
    /\ self.class_id.data = <<1, 0, 1>>
    /\ self.confidence.data = <<100, 900, 500>>
    /\ ret.class_id.data = <<0, 1>>
    /\ ret.confidence.data = <<900, 500>>

(* C2 as stated: the result is the first min(k, N) entries of the indices   *)
(* sorted ascending by (-confidence, original index), so that of two tied   *)
(* items the one with the smaller original index comes first.               *)
C2_TiesKeepInputOrder ==
    (TopKOnScored /\ args.k >= 0) =>
        /\ err = "none"
        /\ ReturnsPrefix(ByNegConfThenIndex(self.confidence.data),
                         Min(args.k, Len(self.confidence.data)))

(* C2, amended: the result is the first min(k, N) entries of some ordering *)
(* of the indices by non-increasing confidence, tied items in either       *)
(* order; it is the (-confidence, original index) ordering whenever the    *)
(* confidences are pairwise distinct.                                      *)
C2_TiesUnordered ==
    (TopKOnScored /\ args.k >= 0) =>
        LET conf == self.confidence.data
            m == Min(args.k, Len(conf))
        IN  /\ err = "none"
            /\ \E p \in Injections(Len(conf), Len(conf)) :
                  Descending(p, conf) /\ ReturnsPrefix(p, m)
            /\ (\A i, j \in 1..Len(conf) : i # j => conf[i] # conf[j])
                  => ReturnsPrefix(ByNegConfThenIndex(conf), m)

\* The tied pair comes back with the larger original index first.
C2_Witness ==
    /\ op = "get_top_k"
    /\ err = "none"
    /\ args.k = 3
    /\ self.class_id.data = <<0, 1, 2>>
    /\ self.confidence.data = <<500, 500, 900>>
    /\ ret.class_id.data = <<2, 1, 0>>
    /\ ret.confidence.data = <<900, 500, 500>>

(* C3: for a result with confidence and k >= 0, both returned sequences    *)
(* have length exactly min(k, N): k > N is clamped to N without an error   *)
(* and k = 0 returns two empty sequences.                                  *)
C3_LengthIsMinKN ==
    (TopKOnScored /\ args.k >= 0) =>
        LET m == Min(args.k, len_(self)) IN
        /\ err = "none"
        /\ ret.class_id.kind = "ndarray" /\ ret.confidence.kind = "ndarray"
        /\ ret.class_id.shape = <<m>> /\ ret.confidence.shape = <<m>>
        /\ Len(ret.class_id.data) = m /\ Len(ret.confidence.data) = m

C3_Witness ==
    /\ op = "get_top_k"
    /\ err = "none"
    /\ self.confidence # None
    /\ len_(self) = 3
    /\ args.k = 4
    /\ Len(ret.class_id.data) = 3
    /\ Len(ret.confidence.data) = 3

(* C4: get_top_k on a result without confidence raises ValueError for      *)
(* every k and every N, and returns nothing.                               *)
C4_MissingConfidenceRaises ==
    (op = "get_top_k" /\ self.confidence = None) =>
        (err = "ValueError" /\ ret = NoResult)

C4_Witness ==
    /\ op = "get_top_k"
    /\ self # NoObject
    /\ self.confidence = None
    /\ len_(self) = 0
    /\ args.k = 0
    /\ err = "ValueError"

(* C5: construction from a class_id that is not a flat (rank-1) sequence,  *)
(* or from a confidence that is given and is not a flat sequence of length *)
(* len(class_id), raises ValueError and yields no object.                  *)
C5_InvalidShapeRaisesValueError ==
    (/\ op = "Classifications"
     /\ \/ Rank(args.a) # 1
        \/ (args.b # None /\ (Rank(args.b) # 1 \/ args.b.shape # args.a.shape)))
        => (err = "ValueError" /\ self = NoObject)

(* C6: every result held is rank-1 in class_id, has confidence absent or   *)
(* of the same length, has len equal to the number of class ids, and holds *)
(* the values it was constructed with, also after get_top_k calls.         *)
C6_ResultInvariant ==
    /\ self = created
    /\ self # NoObject =>
        /\ isinstance_ndarray(self.class_id)
        /\ Rank(self.class_id) = 1
        /\ len_(self) = Len(self.class_id.data)
        /\ \/ self.confidence = None
           \/ /\ Rank(self.confidence) = 1
              /\ self.confidence.shape[1] = len_(self)
              /\ Len(self.confidence.data) = Len(self.class_id.data)
    /\ (op = "Classifications" /\ err = "none") =>
        (self.class_id = args.a /\ self.confidence = args.b)

C6_Witness ==
    /\ op = "get_top_k"
    /\ origin = "Classifications"
    /\ err = "none"
    /\ args.k = 2
    /\ self.class_id.data = <<1, 1, 0>>
    /\ self.confidence.data = <<100, 500, 900>>
    /\ ret.class_id.data = <<0, 1>>
    /\ self = created

(* C7 as stated: from_clip on a (1, N) matrix, from_ultralytics on an      *)
(* N-vector and from_timm on an N-vector each return a result of length N  *)
(* with class ids 0..N-1 and a confidence of length N.                     *)
C7_AdaptersOnVectors ==
    /\ (op = "from_clip" /\ IsMatrix1xN(args.a)) => AdapterBuilt(args.a.shape[2])
    /\ (op = "from_ultralytics" /\ IsVector(args.a)) => AdapterBuilt(args.a.shape[1])
    /\ (op = "from_timm" /\ IsVector(args.a)) => AdapterBuilt(args.a.shape[1])

(* C7, amended: from_clip on a (1, N) matrix, from_ultralytics on an       *)
(* N-vector and from_timm on a (1, N) matrix (a batch of one, whose row 0  *)
(* the adapter takes) each return a result of length N with class ids      *)
(* 0..N-1 and a confidence of length N.                                    *)
C7_AdaptersOnBatches ==
    /\ (op = "from_clip" /\ IsMatrix1xN(args.a)) => AdapterBuilt(args.a.shape[2])
    /\ (op = "from_ultralytics" /\ IsVector(args.a)) => AdapterBuilt(args.a.shape[1])
    /\ (op = "from_timm" /\ IsMatrix1xN(args.a)) => AdapterBuilt(args.a.shape[2])

C7_Witness ==
    /\ op = "from_timm"
    /\ args.a.shape = <<1, 3>>
    /\ err = "none"
    /\ len_(self) = 3
    /\ self.class_id.data = <<0, 1, 2>>
    /\ self.confidence.data = args.a.data

(* C8 as stated: from_clip on a (1, N) matrix of probabilities (a row that *)
(* sums to 1) returns that row unchanged as the confidence.                *)
C8_ClipKeepsProbabilities ==
    (op = "from_clip" /\ IsMatrix1xN(args.a) /\ SumSeq(args.a.data) = 1000) =>
        /\ err = "none"
        /\ self.class_id.data = DenseIds(args.a.shape[2])
        /\ self.confidence.data = args.a.data

(* C8, amended: from_clip applies softmax along the last axis to its input *)
(* and returns row 0 of the result: confidence[i] is                       *)
(* exp(x[i]) / sum_j exp(x[j]) (to the nearest thousandth), which is the   *)
(* input row itself only when all of its entries are equal.                *)
C8_ClipAppliesSoftmax ==
    (op = "from_clip" /\ IsMatrix1xN(args.a)) =>
        LET x == args.a.data
            n == args.a.shape[2]
            z == SumSeq([i \in 1..n |-> exp_(x[i])])
            c == self.confidence.data
        IN  /\ err = "none"
            /\ self.class_id.data = DenseIds(n)
            /\ Len(c) = n
            /\ \A i \in 1..n :
                  /\ 2 * (c[i] * z - 1000 * exp_(x[i])) <= z
                  /\ 2 * (1000 * exp_(x[i]) - c[i] * z) <= z
            /\ c = x => \A i, j \in 1..n : x[i] = x[j]

C8_Witness ==
    /\ op = "from_clip"
    /\ args.a.shape = <<1, 3>>
    /\ args.a.data = <<200, 500, 300>>
    /\ err = "none"
    /\ self.class_id.data = <<0, 1, 2>>
    /\ self.confidence.data = <<289, 391, 320>>

(* C9 as stated: from_timm given an empty vector returns a result with     *)
(* N = 0 whose confidence is present.                                      *)
C9_TimmEmptyVector ==
    (op = "from_timm" /\ IsVector(args.a) /\ args.a.shape = <<0>>) =>
        /\ err = "none"
        /\ self # NoObject
        /\ len_(self) = 0
        /\ self.confidence # None

(* C9, amended: from_timm given a (1, 0) matrix (a batch of one empty row) *)
(* returns a result with N = 0 whose class_id and confidence are both      *)
(* empty and whose confidence is present, and get_top_k(1) on that result  *)
(* returns two empty sequences without raising.                            *)
C9_TimmEmptyRow ==
    /\ (op = "from_timm" /\ args.a.shape = <<1, 0>>) =>
        /\ err = "none"
        /\ self # NoObject
        /\ len_(self) = 0
        /\ self.class_id.data = <<>>
        /\ self.confidence # None
        /\ self.confidence.data = <<>>
    /\ (op = "get_top_k" /\ origin = "from_timm" /\ len_(self) = 0 /\ args.k = 1) =>
        /\ err = "none"
        /\ ret.class_id.kind = "ndarray" /\ ret.class_id.data = <<>>
        /\ ret.confidence.kind = "ndarray" /\ ret.confidence.data = <<>>

C9_Witness ==
    /\ op = "get_top_k"
    /\ origin = "from_timm"
    /\ len_(self) = 0
    /\ self.confidence = Vec(<<>>)
    /\ args.k = 1
    /\ err = "none"
    /\ ret.class_id = Vec(<<>>)
    /\ ret.confidence = Vec(<<>>)

(* C10: for a result with confidence and k < 0, get_top_k(k) never raises  *)
(* and returns the first max(N + k, 0) entries of the descending order,    *)
(* dropping the |k| items of lowest confidence.                            *)
C10_NegativeKSlices ==
    (TopKOnScored /\ args.k < 0) =>
        LET conf == self.confidence.data
            m == Max(Len(conf) + args.k, 0)
        IN  /\ err = "none"
            /\ Len(ret.class_id.data) = m
            /\ Len(ret.confidence.data) = m
            /\ \E p \in Injections(Len(conf), Len(conf)) :
                  Descending(p, conf) /\ ReturnsPrefix(p, m)

C10_Witness ==
    /\ op = "get_top_k"
    /\ err = "none"
    /\ args.k = -1
    /\ self.class_id.data = <<0, 1, 2>>
    /\ self.confidence.data = <<100, 900, 500>>
    /\ ret.class_id.data = <<1, 2>>
    /\ ret.confidence.data = <<900, 500>>

====
